---- MODULE Spec2Model ----
(***************************************************************************)
(* The crank-driven voice-note player of pasoncheam/valentine2026.         *)
(*                                                                         *)
(* The repository holds two builds of the same script:                     *)
(*   "part_000"        src/unnamed/part_000 (visualizer with a baseline    *)
(*                     waveform, local-file mode, photo slideshow)         *)
(*   "voice_note_app"  src/voice-note-app/script.js                        *)
(* The variable app says which build a behaviour runs; every handler is    *)
(* translated from the build it belongs to.                                *)
(*                                                                         *)
(* Numbers are fixed point:                                                *)
(*   angles and velocities   1 unit = 0.0001 rad                           *)
(*   playbackRate, volume    1 unit = 0.0001                               *)
(*   bar heights             1 unit = 0.5 px (dataArray[i] / 2 is exact)   *)
(*   Math.random(), progress 1 unit = 1 / RANDOM_ONE, 1 / PROGRESS_ONE     *)
(***************************************************************************)
EXTENDS Integers, Sequences, FiniteSets

VARIABLES
    app,              \* which build runs
    isLocalFile,      \* part_000:24  window.location.protocol === 'file:'
    isDragging,       \* :9
    currentAngle,     \* :10
    lastMouseAngle,   \* :11
    velocity,         \* :12
    lastTime,         \* :13  timestamp of the last frame, counted in frames
    isAudioSetup,     \* the setup flag
    audioContext,     \* TRUE when assigned
    analyser,         \* TRUE when assigned
    source,           \* TRUE when assigned
    constructions,    \* number of times the try block of setupAudio completed
    setupReused,      \* a setupAudio call found the flag set and returned early
    paused,           \* audio.paused
    playbackRate,     \* audio.playbackRate
    volume,           \* audio.volume
    framePlay,        \* the last frame called audio.play()
    framePause,       \* the last frame called audio.pause()
    unlockPending,    \* voice_note_app: pending .then(() => audio.pause())
    canvasHeight,     \* canvas.height, in px
    pseudoWaveform,   \* part_000:195, fixed at startup
    bars,             \* heights handed to fillRect by the last drawing frame
    frameProgress,    \* progress that the last drawing frame computed
    photoCount,       \* photos.length
    photoActive,      \* indices of the photos carrying the class 'active'
    currentPhotoIndex,
    rafPending,       \* callbacks registered with requestAnimationFrame
    moves,            \* number of moveDrag calls that passed the guard
    dragStartAngle,   \* currentAngle at the last startDrag
    deltaSum,         \* sum of the deltas applied since the last startDrag
    moveIgnored       \* a moveDrag call since the last startDrag returned at the guard

vars == <<app, isLocalFile, isDragging, currentAngle, lastMouseAngle, velocity,
          lastTime, isAudioSetup, audioContext, analyser, source, constructions,
          setupReused, paused, playbackRate, volume, framePlay, framePause, unlockPending,
          canvasHeight, pseudoWaveform, bars, frameProgress, photoCount, photoActive,
          currentPhotoIndex, rafPending, moves, dragStartAngle, deltaSum,
          moveIgnored>>

physVars == <<isDragging, currentAngle, lastMouseAngle, velocity>>
setupVars == <<isAudioSetup, audioContext, analyser, source, constructions,
               setupReused>>
audioVars == <<paused, playbackRate, volume>>
drawVars == <<bars, frameProgress>>
photoVars == <<photoActive, currentPhotoIndex>>
histVars == <<moves, dragStartAngle, deltaSum, moveIgnored>>

(***************************************************************************)
(* Program constants, in the units above.                                  *)
(***************************************************************************)
PI == 31416
FRICTION == 95
DRAG_GAIN == 5
EPSILON == 10
PLAY_THRESHOLD == 200
LIVE_THRESHOLD == 100
RATE_BASE == 5000
RATE_GAIN == 3
RATE_MAX == 15000
RATE_MIN == 8000
VOLUME_GAIN == 5
VOLUME_ONE == 10000
MIN_BAR == 8
BYTE_MAX == 255
PSEUDO_MIN == 20
PSEUDO_SPAN == 100
JITTER_GAIN == 100
ANGLE_ONE == 10000

(***************************************************************************)
(* Bounds of the model.                                                    *)
(***************************************************************************)
NumBars == 2
RANDOM_ONE == 4
PROGRESS_ONE == 8
MaxMoves == 3
MaxTime == 3
MaxDragMoves == 2
MaxCoastMoves == 1
MaxCoastTime == 200
MaxSetupTime == 2
MaxVisTime == 2
MaxPhotos == 4
MaxRestMoves == 1
MaxHeldTime == 2
MaxRestTime == 200
MaxUnlock == 1

Abs(x) == IF x < 0 THEN -x ELSE x
Min(a, b) == IF a < b THEN a ELSE b
Max(a, b) == IF a > b THEN a ELSE b
\* x / d rounded toward zero, as a fixed-point product keeps its sign
DivTrunc(x, d) == IF x < 0 THEN -((-x) \div d) ELSE x \div d

Apps == {"part_000", "voice_note_app"}

(***************************************************************************)
(* Pure computations of the handlers.                                      *)
(***************************************************************************)
\* faulty variant: the wrap tests left out
NormalizeDeltaNoWrap(delta) == delta
\* faulty variant: the wrap by half a turn
NormalizeDeltaHalfTurn(delta) ==
    LET d1 == IF delta > PI THEN delta - PI ELSE delta
    IN  IF d1 < -PI THEN d1 + PI ELSE d1
\* moveDrag: the two wrap tests, in the order of the code
NormalizeDelta(delta) ==
    LET d1 == IF delta > PI THEN delta - 2 * PI ELSE delta
    IN  IF d1 < -PI THEN d1 + 2 * PI ELSE d1

\* faulty variant: no friction
FrictionNone(v) == v
\* loop: velocity *= FRICTION
Friction(v) == DivTrunc(v * FRICTION, 100)

\* loop: if (Math.abs(velocity) < 0.001) velocity = 0
ClampEpsilon(v) == IF Abs(v) < EPSILON THEN 0 ELSE v

\* faulty variant: the two clamps left out
RateUnclamped(speed) == RATE_BASE + speed * RATE_GAIN
\* faulty variant: the raise to 0.8 left out
RateNoFloor(speed) ==
    LET r0 == RATE_BASE + speed * RATE_GAIN
    IN  IF r0 > RATE_MAX THEN RATE_MAX ELSE r0
\* loop: rate = 0.5 + speed * 3, capped at 1.5 and then raised to 0.8
Rate(speed) ==
    LET r0 == RATE_BASE + speed * RATE_GAIN
        r1 == IF r0 > RATE_MAX THEN RATE_MAX ELSE r0
    IN  IF r1 < RATE_MIN THEN RATE_MIN ELSE r1

\* loop: Math.min(1, speed * 5)
Volume(speed) == Min(VOLUME_ONE, speed * VOLUME_GAIN)

\* the setter of audio.volume throws IndexSizeError outside [0, 1]
VolumeThrows(vol) == vol < 0 \/ vol > VOLUME_ONE

\* part_000:195  Math.random() * 50 + 10, for Math.random() = r / RANDOM_ONE
PseudoHeight(r) == PSEUDO_MIN + (r * PSEUDO_SPAN) \div RANDOM_ONE

\* part_000:245  (Math.random() - 0.5) * (speed * 50), in half pixels
Jitter(r, speed) ==
    DivTrunc((2 * r - RANDOM_ONE) * speed * JITTER_GAIN, 2 * RANDOM_ONE * ANGLE_ONE)

\* part_000:249-251  the two clamps of a bar, in the order of the code
ClampBar(h, height) ==
    LET h1 == IF h < MIN_BAR THEN MIN_BAR ELSE h
    IN  IF h1 > 2 * height THEN 2 * height ELSE h1

\* part_000:229-252  the height of bar i (1-based here, 0-based in the code)
BarPart000(i, speed, data, rnd) ==
    LET live == analyser /\ ~isLocalFile
        index == ((i - 1) * Len(data)) \div NumBars
        realHeight == data[index + 1]
        h0 == IF live
              THEN IF speed > LIVE_THRESHOLD THEN realHeight ELSE pseudoWaveform[i]
              ELSE IF speed > PLAY_THRESHOLD
                   THEN pseudoWaveform[i] + Jitter(rnd[i], speed)
                   ELSE pseudoWaveform[i]
    IN  ClampBar(h0, canvasHeight)

\* script.js:209-216  barHeight = dataArray[i] / 2, drawn as it is
BarVoiceNoteApp(i, data) == data[i]

\* faulty variant: the two clamps left out
PhotoIndexUnclamped(p, n) == (p * n) \div PROGRESS_ONE
\* faulty variant: Math.round in place of Math.floor
PhotoIndexRounded(p, n) ==
    LET i0 == (2 * p * n + PROGRESS_ONE) \div (2 * PROGRESS_ONE)
        i1 == IF i0 >= n THEN n - 1 ELSE i0
    IN  IF i1 < 0 THEN 0 ELSE i1
\* part_000:268-272  the photo index of a progress p / PROGRESS_ONE
PhotoIndex(p, n) ==
    LET i0 == (p * n) \div PROGRESS_ONE
        i1 == IF i0 >= n THEN n - 1 ELSE i0
    IN  IF i1 < 0 THEN 0 ELSE i1

(***************************************************************************)
(* Construction.                                                           *)
(***************************************************************************)
\* The markup of the page is not part of the sources: the slideshow starts
\* with the photo of the stored index 0 carrying 'active', when there is one.
InitialActive(n) == IF n > 0 THEN {0} ELSE {}

InitWith(apps, locals, waveRandoms, photoCounts, heights) ==
    /\ app \in apps
    /\ isLocalFile \in (IF app = "part_000" THEN locals ELSE {FALSE})
    /\ isDragging = FALSE
    /\ currentAngle = 0
    /\ lastMouseAngle = 0
    /\ velocity = 0
    /\ lastTime = 0
    /\ isAudioSetup = FALSE
    /\ audioContext = FALSE
    /\ analyser = FALSE
    /\ source = FALSE
    /\ constructions = 0
    /\ setupReused = FALSE
    /\ paused = TRUE
    /\ playbackRate = VOLUME_ONE
    /\ volume = VOLUME_ONE
    /\ framePlay = FALSE
    /\ framePause = FALSE
    /\ unlockPending = 0
    /\ canvasHeight \in heights
    /\ pseudoWaveform \in (IF app = "part_000"
                           THEN [1..NumBars -> {PseudoHeight(r) : r \in waveRandoms}]
                           ELSE {<<>>})
    /\ bars = <<>>
    /\ frameProgress = 0
    /\ photoCount \in (IF app = "part_000" THEN photoCounts ELSE {0})
    /\ photoActive = InitialActive(photoCount)
    /\ currentPhotoIndex = 0
    /\ rafPending = 1
    /\ moves = 0
    /\ dragStartAngle = 0
    /\ deltaSum = 0
    /\ moveIgnored = FALSE

(***************************************************************************)
(* setupAudio.  outcome says where the try block throws, if it does:       *)
(*   "ok"             it completes                                         *)
(*   "contextThrows"  the AudioContext constructor throws                  *)
(*   "sourceThrows"   createMediaElementSource throws, after audioContext  *)
(*                    and analyser were assigned                           *)
(***************************************************************************)
SetupOutcomes == {"ok", "contextThrows", "sourceThrows"}

\* the try block of setupAudio and its catch block
construct(outcome) ==
    /\ audioContext' = (audioContext \/ outcome # "contextThrows")
    /\ analyser' = (analyser \/ outcome # "contextThrows")
    /\ source' = (source \/ outcome = "ok")
    \* part_000:90 sets the flag in the catch block, script.js:44-46 does not
    /\ isAudioSetup' = (outcome = "ok" \/ app = "part_000")
    /\ constructions' = constructions + (IF outcome = "ok" THEN 1 ELSE 0)
    /\ UNCHANGED setupReused

\* faulty variant: the test of the setup flag left out
setupAudioUnguarded(outcome) == construct(outcome)

setupAudio(outcome) ==
    IF isAudioSetup
    THEN /\ setupReused' = TRUE
         /\ UNCHANGED <<isAudioSetup, audioContext, analyser, source, constructions>>
    ELSE IF app = "part_000" /\ isLocalFile
    THEN /\ isAudioSetup' = TRUE
         /\ UNCHANGED <<audioContext, analyser, source, constructions, setupReused>>
    ELSE construct(outcome)

\* part_000:95-96  document-level click and touchstart
documentInteraction(outcome) ==
    /\ app = "part_000"
    /\ setupAudio(outcome)
    /\ UNCHANGED <<app, isLocalFile, physVars, lastTime, audioVars, framePlay,
                   framePause, unlockPending, canvasHeight, pseudoWaveform, drawVars,
                   photoCount, photoVars, rafPending, histVars>>

(***************************************************************************)
(* Input handlers.                                                         *)
(***************************************************************************)
startDrag(angle, outcome, playOK) ==
    /\ isDragging' = TRUE
    /\ lastMouseAngle' = angle
    /\ IF app = "part_000"
       THEN /\ setupAudio(outcome)
            /\ UNCHANGED <<paused, unlockPending>>
       ELSE IF ~isAudioSetup
       THEN /\ setupAudio(outcome)
            \* audio.play().then(() => audio.pause()).catch(() => { })
            /\ IF playOK
               THEN /\ unlockPending < MaxUnlock
                    /\ paused' = FALSE
                    /\ unlockPending' = unlockPending + 1
               ELSE UNCHANGED <<paused, unlockPending>>
       ELSE UNCHANGED <<setupVars, paused, unlockPending>>
    /\ dragStartAngle' = currentAngle
    /\ deltaSum' = 0
    /\ moveIgnored' = FALSE
    /\ UNCHANGED <<app, isLocalFile, currentAngle, velocity, lastTime,
                   playbackRate, volume, framePlay, framePause, canvasHeight,
                   pseudoWaveform, drawVars, photoCount, photoVars, rafPending, moves>>

\* the fulfilment callback of the unlock attempt of script.js:68
unlockThen ==
    /\ unlockPending > 0
    /\ unlockPending' = unlockPending - 1
    /\ paused' = TRUE
    /\ UNCHANGED <<app, isLocalFile, physVars, lastTime, setupVars, playbackRate,
                   volume, framePlay, framePause, canvasHeight, pseudoWaveform,
                   drawVars, photoCount, photoVars, rafPending, histVars>>

\* faulty variant: the guard of moveDrag left out
moveDragUnguarded(angle) ==
    LET delta == NormalizeDelta(angle - lastMouseAngle)
    IN  /\ currentAngle' = currentAngle + delta
        /\ velocity' = delta * DRAG_GAIN
        /\ lastMouseAngle' = angle
        /\ moves' = moves + 1
        /\ deltaSum' = deltaSum + delta
        /\ UNCHANGED <<app, isLocalFile, isDragging, lastTime, setupVars,
                       audioVars, framePlay, framePause, unlockPending,
                       canvasHeight, pseudoWaveform, drawVars, photoCount,
                       photoVars, rafPending, dragStartAngle, moveIgnored>>

\* part_000:122-136
moveDrag(angle) ==
    IF ~isDragging
    THEN \* if (!isDragging) return;
         /\ moveIgnored' = TRUE
         /\ UNCHANGED <<app, isLocalFile, physVars, lastTime, setupVars, audioVars,
                        framePlay, framePause, unlockPending, canvasHeight,
                        pseudoWaveform, drawVars, photoCount, photoVars,
                        rafPending, moves, dragStartAngle, deltaSum>>
    ELSE LET delta == NormalizeDelta(angle - lastMouseAngle)
         IN  /\ currentAngle' = currentAngle + delta
             /\ velocity' = delta * DRAG_GAIN
             /\ lastMouseAngle' = angle
             /\ moves' = moves + 1
             /\ deltaSum' = deltaSum + delta
             /\ UNCHANGED <<app, isLocalFile, isDragging, lastTime, setupVars,
                            audioVars, framePlay, framePause, unlockPending,
                            canvasHeight, pseudoWaveform, drawVars, photoCount,
                            photoVars, rafPending, dragStartAngle, moveIgnored>>

\* faulty variant: the release also stops the crank
endDragStopping ==
    /\ isDragging' = FALSE
    /\ velocity' = 0
    /\ UNCHANGED <<app, isLocalFile, currentAngle, lastMouseAngle, lastTime,
                   setupVars, audioVars, framePlay, framePause, unlockPending,
                   canvasHeight, pseudoWaveform, drawVars, photoCount, photoVars,
                   rafPending, histVars>>

\* part_000:138-140
endDrag ==
    /\ isDragging' = FALSE
    /\ UNCHANGED <<app, isLocalFile, currentAngle, lastMouseAngle, velocity,
                   lastTime, setupVars, audioVars, framePlay, framePause,
                   unlockPending, canvasHeight, pseudoWaveform, drawVars, photoCount,
                   photoVars, rafPending, histVars>>

resizeCanvas(height) ==
    /\ canvasHeight' = height
    /\ UNCHANGED <<app, isLocalFile, physVars, lastTime, setupVars, audioVars,
                   framePlay, framePause, unlockPending, pseudoWaveform, drawVars,
                   photoCount, photoVars, rafPending, histVars>>

(***************************************************************************)
(* The frame.  time is the timestamp of the callback, playOK whether       *)
(* audio.play() is allowed, data the frequency snapshot (bytes), rnd the   *)
(* values of Math.random() of the bars, progress audio.currentTime over    *)
(* audio.duration (0 when the duration is unknown).                        *)
(* A statement that throws ends the callback: what it did so far stays     *)
(* and requestAnimationFrame is not reached.                               *)
(***************************************************************************)
\* part_000:264-284; index past the list makes photos[index].classList throw
updatePhotos(progress, skip) ==
    IF skip \/ app # "part_000" \/ photoCount = 0
    THEN UNCHANGED photoVars
    ELSE LET index == PhotoIndex(progress, photoCount)
         IN  IF index = currentPhotoIndex
             THEN UNCHANGED photoVars
             ELSE IF index \in 0..(photoCount - 1)
             THEN /\ photoActive' = (photoActive \ {currentPhotoIndex}) \cup {index}
                  /\ currentPhotoIndex' = index
             ELSE /\ photoActive' = photoActive \ {currentPhotoIndex}
                  /\ currentPhotoIndex' = currentPhotoIndex

updatePhotosThrows(progress) ==
    /\ app = "part_000"
    /\ photoCount > 0
    /\ PhotoIndex(progress, photoCount) # currentPhotoIndex
    /\ PhotoIndex(progress, photoCount) \notin 0..(photoCount - 1)

\* faulty variant: the early return of script.js:173 left out
drawVisualizerThrowsUnguarded == app = "voice_note_app" /\ ~analyser
\* script.js:173-175  analyser.frequencyBinCount with analyser undefined
drawVisualizerThrows == app = "voice_note_app" /\ isAudioSetup /\ ~analyser

drawVisualizer(speed, data, rnd, progress, skip) ==
    IF skip
    THEN UNCHANGED drawVars
    ELSE IF app = "part_000"
    THEN /\ frameProgress' = progress
         /\ bars' = [i \in 1..NumBars |-> BarPart000(i, speed, data, rnd)]
    ELSE IF ~isAudioSetup \/ ~analyser
    THEN UNCHANGED drawVars
    ELSE /\ frameProgress' = progress
         /\ bars' = [i \in 1..Len(data) |-> BarVoiceNoteApp(i, data)]

\* faulty variant: the test of isDragging inverted
FrameVelocityInverted(dragging, v) == IF dragging THEN Friction(v) ELSE v
\* faulty variant: friction also while dragging
FrameVelocityAlways(dragging, v) == Friction(v)
\* part_000:162-166  friction and integration, skipped while dragging
FrameVelocity(dragging, v) == IF ~dragging THEN Friction(v) ELSE v
\* faulty variant: integration also while dragging
FrameAngleAlways(dragging, angle, v1) == angle + v1
FrameAngle(dragging, angle, v1) == IF ~dragging THEN angle + v1 ELSE angle

\* faulty variant: a hysteresis band below the threshold
transportWithBand(speed, playOK, volumeThrows) ==
    IF speed > PLAY_THRESHOLD
    THEN /\ framePlay' = paused
         /\ framePause' = FALSE
         /\ paused' = IF paused THEN ~playOK ELSE FALSE
         /\ playbackRate' = Rate(speed)
         /\ volume' = IF volumeThrows THEN volume ELSE Volume(speed)
    ELSE IF 2 * speed > PLAY_THRESHOLD
    THEN /\ framePlay' = FALSE
         /\ framePause' = FALSE
         /\ UNCHANGED <<paused, playbackRate, volume>>
    ELSE /\ framePlay' = FALSE
         /\ framePause' = ~paused
         /\ paused' = TRUE
         /\ UNCHANGED <<playbackRate, volume>>

\* part_000:173-187  the transport follows the speed
transport(speed, playOK, volumeThrows) ==
    IF speed > PLAY_THRESHOLD
    THEN /\ framePlay' = paused
         /\ framePause' = FALSE
         \* audio.play() rejected: the element stays paused
         /\ paused' = IF paused THEN ~playOK ELSE FALSE
         /\ playbackRate' = Rate(speed)
         /\ volume' = IF volumeThrows THEN volume ELSE Volume(speed)
    ELSE /\ framePlay' = FALSE
         /\ framePause' = ~paused
         /\ paused' = TRUE
         /\ UNCHANGED <<playbackRate, volume>>

loop(time, playOK, data, rnd, progress) ==
    LET v1 == FrameVelocity(isDragging, velocity)
        v2 == ClampEpsilon(v1)
        speed == Abs(v2)
        volumeThrows == speed > PLAY_THRESHOLD /\ VolumeThrows(Volume(speed))
        drawThrows == ~volumeThrows /\ drawVisualizerThrows
        photosThrow == ~volumeThrows /\ ~drawThrows /\ updatePhotosThrows(progress)
    IN  /\ rafPending > 0
        /\ lastTime' = time
        /\ velocity' = v2
        /\ currentAngle' = FrameAngle(isDragging, currentAngle, v1)
        /\ transport(speed, playOK, volumeThrows)
        /\ drawVisualizer(speed, data, rnd, progress, volumeThrows \/ drawThrows)
        /\ updatePhotos(progress, volumeThrows \/ drawThrows)
        /\ rafPending' = IF volumeThrows \/ drawThrows \/ photosThrow
                         THEN rafPending - 1
                         ELSE rafPending
        /\ UNCHANGED <<app, isLocalFile, isDragging, lastMouseAngle, setupVars,
                       unlockPending, canvasHeight, pseudoWaveform, photoCount,
                       histVars>>

(***************************************************************************)
(* Inputs.                                                                 *)
(***************************************************************************)
\* pointer angles, as Math.atan2 returns them: -PI..PI
Angles == {-PI, -31000, -1000, 0, 1, 30, 1000, 31000, PI}
StepAngles == {0, 1000, 2000, 3000}
DragStartAngles == {0, 2000}
CoastAngles == {-PI, 0, 1, 30, 50, 1000, PI}
FewAngles == {0, 30, 1000}
RestAngles == {0, 600, PI}
ByteSamples == {0, 7, BYTE_MAX}
RandomSamples == {0, RANDOM_ONE - 1}
Heights == {0, 3, 60}
ZeroBars == [i \in 1..NumBars |-> 0]
\* the next timestamp, while the model follows the clock
FrameTimes(cap) == {t \in {lastTime + 1} : t <= cap}

(***************************************************************************)
(* Spec: the page in use.  Every handler, up to MaxMoves moves and the     *)
(* frames of the first MaxTime ticks; audio setup succeeds.                *)
(***************************************************************************)
Init == InitWith(Apps, {FALSE}, {0}, {2}, {60})

Next ==
    \/ \E a \in DragStartAngles, ok \in BOOLEAN : startDrag(a, "ok", ok)
    \/ \E a \in StepAngles : moves < MaxMoves /\ moveDrag(a)
    \/ endDrag
    \/ unlockThen
    \/ documentInteraction("ok")
    \/ \E t \in FrameTimes(MaxTime), ok \in BOOLEAN : loop(t, ok, ZeroBars, ZeroBars, 0)

Spec == Init /\ [][Next]_vars

(***************************************************************************)
(* SpecDrag: pointer events over the whole range of angles, between two    *)
(* frames.                                                                 *)
(***************************************************************************)
NextDrag ==
    \/ \E a \in Angles : startDrag(a, "ok", FALSE)
    \/ \E a \in Angles : moves < MaxDragMoves /\ moveDrag(a)
    \/ endDrag

SpecDrag == Init /\ [][NextDrag]_vars

(***************************************************************************)
(* SpecCoast: one drag of up to MaxCoastMoves moves, then the frames until *)
(* the crank is at rest.  Frames before the release count to MaxTime.      *)
(* The pointer moves of this scenario are those of the drag; moves outside *)
(* a drag are in Spec and SpecDrag.                                        *)
(***************************************************************************)
NextCoast ==
    \/ \E a \in CoastAngles, ok \in BOOLEAN : moves = 0 /\ startDrag(a, "ok", ok)
    \/ \E a \in CoastAngles : isDragging /\ moves < MaxCoastMoves /\ moveDrag(a)
    \/ endDrag
    \/ unlockThen
    \/ \E t \in FrameTimes(IF moves = 0 \/ isDragging THEN MaxTime ELSE MaxCoastTime),
          ok \in BOOLEAN : loop(t, ok, ZeroBars, ZeroBars, 0)

SpecCoast == Init /\ [][NextCoast]_vars

(***************************************************************************)
(* SpecSetup: the interactions that call setupAudio, with every outcome of *)
(* the construction, in both builds and both modes of part_000.            *)
(***************************************************************************)
InitSetup == InitWith(Apps, BOOLEAN, {0}, {2}, {60})

NextSetup ==
    \/ \E a \in {0}, o \in SetupOutcomes, ok \in BOOLEAN : startDrag(a, o, ok)
    \/ \E a \in {0, 1000} : moves < MaxCoastMoves /\ moveDrag(a)
    \/ endDrag
    \/ unlockThen
    \/ \E o \in SetupOutcomes : documentInteraction(o)
    \/ \E t \in FrameTimes(MaxSetupTime), ok \in BOOLEAN :
          loop(t, ok, ZeroBars, ZeroBars, 0)

SpecSetup == InitSetup /\ [][NextSetup]_vars

(***************************************************************************)
(* SpecVis: the visualizer over surface heights, snapshots and random      *)
(* values; SpecPhotos: the slideshow over photo counts and progress.       *)
(***************************************************************************)
InitVis == InitWith(Apps, BOOLEAN, RandomSamples, {2}, Heights)

NextVis ==
    \/ \E o \in SetupOutcomes : startDrag(0, o, FALSE)
    \/ \E a \in FewAngles : moves < MaxCoastMoves /\ moveDrag(a)
    \/ endDrag
    \/ \E h \in Heights : resizeCanvas(h)
    \/ \E t \in FrameTimes(MaxVisTime),
          data \in [1..NumBars -> ByteSamples],
          rnd \in [1..NumBars -> RandomSamples] : loop(t, TRUE, data, rnd, 0)

SpecVis == InitVis /\ [][NextVis]_vars

InitPhotos == InitWith({"part_000"}, {TRUE}, {0}, 0..MaxPhotos, {60})

NextPhotos ==
    \/ \E a \in {0, 1000} : startDrag(a, "ok", FALSE)
    \/ \E a \in {0, 1000} : moves < MaxCoastMoves /\ moveDrag(a)
    \/ endDrag
    \/ \E t \in FrameTimes(MaxTime), p \in 0..PROGRESS_ONE :
          loop(t, TRUE, ZeroBars, ZeroBars, p)

SpecPhotos == InitPhotos /\ [][NextPhotos]_vars

(***************************************************************************)
(* SpecRest: SpecCoast with the frames kept coming.  loop registers itself *)
(* with requestAnimationFrame at the end of every frame, so the next frame *)
(* is taken whenever one is due: weak fairness of the frame.               *)
(***************************************************************************)
RestFrame ==
    \E t \in FrameTimes(IF moves = 0 \/ isDragging THEN MaxHeldTime ELSE MaxRestTime),
       ok \in BOOLEAN : loop(t, ok, ZeroBars, ZeroBars, 0)

NextRest ==
    \/ \E a \in RestAngles, ok \in BOOLEAN : moves = 0 /\ startDrag(a, "ok", ok)
    \/ \E a \in RestAngles : isDragging /\ moves < MaxRestMoves /\ moveDrag(a)
    \/ endDrag
    \/ unlockThen
    \/ RestFrame

SpecRest == Init /\ [][NextRest]_vars /\ WF_vars(RestFrame)

(***************************************************************************)
(* C1.  The delta that moveDrag adds to the cumulative angle.              *)
(***************************************************************************)
\* the step of a moveDrag that passed the guard
MoveStep == isDragging /\ moves' # moves
AppliedDelta == currentAngle' - currentAngle

FrameStep == lastTime' # lastTime
SameSign(x, y) == (x > 0 /\ y > 0) \/ (x < 0 /\ y < 0)

\* C2 as stated: from any reachable state with a velocity other than 0, with
\* no input event in between, a frame strictly decreases the magnitude of
\* the velocity, and a velocity of 0 stays 0.
C2_EveryFrameDecays ==
    [][FrameStep =>
          /\ velocity # 0 => Abs(velocity') < Abs(velocity)
          /\ velocity = 0 => velocity' = 0]_vars

\* C2 amended: while isDragging is false, a frame replaces a velocity other
\* than 0 by 0.95 times its value (a strictly smaller magnitude, same sign),
\* or by exactly 0 when that product is below 0.001 in magnitude; a velocity
\* of 0 stays 0 on every frame.
C2_FrictionDecay ==
    [][FrameStep =>
          /\ (~isDragging /\ velocity # 0) =>
                /\ Abs(velocity') < Abs(velocity)
                /\ IF Abs(velocity) * FRICTION < EPSILON * 100
                   THEN velocity' = 0
                   ELSE /\ SameSign(velocity', velocity)
                        /\ 100 * Abs(velocity') <= FRICTION * Abs(velocity)
                        /\ FRICTION * Abs(velocity) < 100 * (Abs(velocity') + 1)
          /\ velocity = 0 => velocity' = 0]_vars

\* the crank was released with a velocity, coasted, and is at rest
C2_CoastedToRest ==
    /\ ~isDragging
    /\ moves >= 1
    /\ velocity = 0
    /\ currentAngle # dragStartAngle + deltaSum
    /\ lastTime > MaxTime + 20

(***************************************************************************)
(* C3.  Range of the playback parameters.                                  *)
(***************************************************************************)
\* C3: in every reachable state the playback rate is in [0.8, 1.5] and the
\* volume is in [0, 1].
C3_RateAndVolumeInRange ==
    /\ playbackRate >= RATE_MIN
    /\ playbackRate <= RATE_MAX
    /\ volume >= 0
    /\ volume <= VOLUME_ONE

\* a frame has played at a speed whose unclamped rate 0.5 + 3 * speed is
\* above 1.5 and whose unclamped volume 5 * speed is above 1
C3_FastSpinPlayed ==
    /\ ~paused
    /\ lastTime >= 1
    /\ RATE_BASE + RATE_GAIN * Abs(velocity) > RATE_MAX
    /\ VOLUME_GAIN * Abs(velocity) > VOLUME_ONE
    /\ playbackRate = RATE_MAX
    /\ volume = VOLUME_ONE

(***************************************************************************)
(* C4.  The slideshow.                                                     *)
(***************************************************************************)
\* C4: with at least one photo, after every update the stored index is in
\* [0, photoCount - 1] and exactly one photo carries the active flag.
C4_OneActivePhotoInRange ==
    photoCount >= 1 =>
        /\ currentPhotoIndex \in 0..(photoCount - 1)
        /\ Cardinality(photoActive) = 1

\* updates have moved the slideshow to its last photo (progress 1, where
\* floor(progress * photoCount) is past the list)
C4_LastPhotoReached ==
    /\ photoCount = MaxPhotos
    /\ lastTime >= 2
    /\ currentPhotoIndex = photoCount - 1
    /\ photoActive = {photoCount - 1}

(***************************************************************************)
(* C5.  Heights of the bars.                                               *)
(***************************************************************************)
\* a frame that reaches the loop over the bars
FrameDraws == FrameStep /\ (app = "part_000" \/ (isAudioSetup /\ analyser))

\* C5: every bar drawn by a frame has a height in [4, surfaceHeight], for
\* every surface height, speed and data source.
C5_BarsWithinSurface ==
    [][FrameDraws =>
          \A i \in DOMAIN bars' :
              bars'[i] >= MIN_BAR /\ bars'[i] <= 2 * canvasHeight']_vars

(***************************************************************************)
(* C6, C7.  Construction of the frequency analysis.                        *)
(***************************************************************************)
\* C6: a failed construction is not final: as long as no construction has
\* succeeded the setup flag stays unset, so the next interaction retries.
\* (With isLocalFile no construction is attempted.)
C6_FailureIsRetried ==
    (isAudioSetup /\ ~isLocalFile) => constructions >= 1

\* C7: over any sequence of interactions the capability is constructed at
\* most once, whole (context, analyser and source assigned together), and a
\* later setupAudio call constructs nothing.
C7_ConstructedAtMostOnce ==
    /\ constructions <= 1
    /\ constructions = 1 => (isAudioSetup /\ audioContext /\ analyser /\ source)

\* the capability was constructed and a later setupAudio call has returned
\* early
C7_ReusedAfterConstruction ==
    /\ constructions = 1
    /\ setupReused

(***************************************************************************)
(* C8.  The frame loop keeps itself scheduled.                             *)
(***************************************************************************)
\* C8: every execution of loop schedules exactly one next execution: there
\* is always exactly one callback pending.
C8_LoopAlwaysScheduled ==
    /\ [](rafPending = 1)
    /\ [][FrameStep => rafPending' = rafPending]_vars

\* a frame has run after a failed construction, with its play request
\* rejected
C8_FrameAfterFailures ==
    /\ lastTime >= 1
    /\ isAudioSetup
    /\ ~analyser
    /\ ~isLocalFile
    /\ framePlay
    /\ paused
    /\ rafPending = 1

\* the same in script.js, where a failed construction leaves the flag unset
C8_FrameBeforeSetup ==
    /\ app = "voice_note_app"
    /\ lastTime >= 1
    /\ ~isAudioSetup
    /\ framePlay

(***************************************************************************)
(* C9.  Moves and frames interleaved during a drag.                        *)
(***************************************************************************)
\* C9: while dragging, whatever frames run between the moves, the
\* cumulative angle is its value at drag start plus the sum of the deltas
\* of the moves, and right after a move the velocity is 5 times its delta.
C9_DragAccumulates ==
    [][/\ isDragging' => currentAngle' = dragStartAngle' + deltaSum'
       /\ MoveStep => velocity' = DRAG_GAIN * (deltaSum' - deltaSum)]_vars

\* three moves of +0.1 rad, with frames run during the drag: 0.3 and 0.5
C9_ThreeStepsApplied ==
    /\ isDragging
    /\ moves = 3
    /\ lastTime >= 2
    /\ dragStartAngle = 0
    /\ deltaSum = 3000
    /\ currentAngle = 3000
    /\ velocity = 5000
    /\ ~paused

(***************************************************************************)
(* C10.  The transport at the end of a frame.                              *)
(***************************************************************************)
\* C10: at the end of every frame, a speed of at most 0.02 leaves the
\* transport paused and a speed above 0.02 leaves it playing or with a play
\* request made in this frame; the frame calls play() only on a paused
\* transport and pause() only on one that is not paused.
C10_TransportFollowsThreshold ==
    [][FrameStep =>
          /\ Abs(velocity') <= PLAY_THRESHOLD => paused'
          /\ Abs(velocity') > PLAY_THRESHOLD => (~paused' \/ framePlay')
          /\ framePlay' => (paused /\ Abs(velocity') > PLAY_THRESHOLD)
          /\ framePause' => (~paused /\ Abs(velocity') <= PLAY_THRESHOLD)]_vars

\* coasting down, a frame found the speed at or below the threshold, still
\* moving, and paused the playing transport
C10_PausedBelowThreshold ==
    /\ ~isDragging
    /\ framePause
    /\ paused
    /\ velocity # 0
    /\ Abs(velocity) <= PLAY_THRESHOLD
    /\ 2 * Abs(velocity) > PLAY_THRESHOLD
    /\ playbackRate = RATE_MIN
    /\ lastTime > MaxTime + 20

(***************************************************************************)
(* C11.  The delta of a move is the shortest signed angular distance.      *)
(***************************************************************************)
\* the difference of the two pointer angles, before any wrap
RawDelta == lastMouseAngle' - lastMouseAngle
\* the whole turns between -3 and 3: the raw difference of two angles of
\* -PI..PI is within one turn of every equivalent of magnitude up to PI
Turns == -3..3

\* C11: the delta that a move from lastMouseAngle to the new pointer angle
\* applies differs from the raw difference by a whole number of turns, and
\* no angle that differs from it by whole turns has a smaller magnitude.
C11_ShortestEquivalent ==
    [][MoveStep =>
         /\ \E k \in Turns : AppliedDelta = RawDelta + k * 2 * PI
         /\ \A k \in Turns : Abs(AppliedDelta) <= Abs(RawDelta + k * 2 * PI)]_vars

\* a move across the seam was applied: from 3.1 rad to -3.1 rad, which is
\* +0.0832 rad
C11_SeamMoveApplied ==
    /\ isDragging
    /\ moves >= 1
    /\ lastMouseAngle = -31000
    /\ deltaSum = 2 * PI - 62000
    /\ currentAngle = dragStartAngle + 2 * PI - 62000
    /\ velocity = DRAG_GAIN * (2 * PI - 62000)

(***************************************************************************)
(* C12.  After the release the crank comes to rest.                        *)
(***************************************************************************)
\* the drag has ended; SpecRest takes no further startDrag after a move
Released == ~isDragging /\ moves >= 1
AtRest == velocity = 0 /\ paused

\* C12: once a drag has ended and no further input arrives, the frames
\* bring the velocity to exactly 0 and the transport to paused, both stay
\* so from then on, and no step changes the cumulative angle any more.
C12_ComesToRest ==
    /\ Released ~> [](AtRest)
    /\ [][(Released /\ AtRest) =>
            (currentAngle' = currentAngle /\ velocity' = 0 /\ paused')]_vars

\* at rest after a coast-down that played: the frame that paused the
\* transport is past, and the angle moved on after the release
C12_AtRestAfterCoast ==
    /\ Released
    /\ AtRest
    /\ ~framePause
    /\ playbackRate = RATE_MIN
    /\ currentAngle # dragStartAngle + deltaSum
    /\ lastTime > MaxHeldTime + 20

(***************************************************************************)
(* C13.  The rate and the volume that a frame sets.                        *)
(***************************************************************************)
\* the speed the frame works with: the magnitude of the velocity it leaves
FrameSpeed == Abs(velocity')

\* C13: a frame with speed > 0.02 sets playbackRate to 0.5 + 3 speed
\* clamped to 0.8..1.5 and volume to the smaller of 1 and 5 speed; a frame
\* with speed <= 0.02 leaves both as they were.
C13_RateAndVolumeFollowSpeed ==
    [][FrameStep =>
         IF FrameSpeed > PLAY_THRESHOLD
         THEN /\ playbackRate' =
                    Max(RATE_MIN, Min(RATE_MAX, RATE_BASE + RATE_GAIN * FrameSpeed))
              /\ volume' = Min(VOLUME_ONE, VOLUME_GAIN * FrameSpeed)
         ELSE /\ playbackRate' = playbackRate
              /\ volume' = volume]_vars

\* a frame ran at speed 0.3: rate 1.4, volume 1
C13_SpeedThreeTenths ==
    /\ lastTime >= 1
    /\ Abs(velocity) = 3000
    /\ playbackRate = 14000
    /\ volume = VOLUME_ONE

(***************************************************************************)
(* C14.  The stored photo index after updatePhotos.                        *)
(***************************************************************************)
\* a frame of part_000 that reached updatePhotos, with photos on the page
PhotosStep == FrameStep /\ app = "part_000" /\ photoCount >= 1 /\ rafPending' > 0
\* floor(progress * photoCount), capped at the last photo
ExpectedIndex ==
    Min((frameProgress' * photoCount) \div PROGRESS_ONE, photoCount - 1)

\* C14: with at least one photo, after updatePhotos(progress) the stored
\* index is the smaller of floor(progress * photoCount) and photoCount - 1;
\* when that index is the stored one already, the active flags and the
\* stored index stay as they were.
C14_IndexFollowsProgress ==
    [][PhotosStep =>
         /\ currentPhotoIndex' = ExpectedIndex
         /\ ExpectedIndex = currentPhotoIndex =>
               (photoActive' = photoActive /\ currentPhotoIndex' = currentPhotoIndex)]_vars

\* progress 0.5 with 4 photos: index 2
C14_HalfWayOfFour ==
    /\ photoCount = 4
    /\ lastTime >= 2
    /\ 2 * frameProgress = PROGRESS_ONE
    /\ currentPhotoIndex = 2
    /\ photoActive = {2}

(***************************************************************************)
(* C15.  endDrag only clears isDragging.                                   *)
(***************************************************************************)
\* the step of an endDrag that ends a drag: no other handler clears the flag
EndDragStep == isDragging /\ ~isDragging'

\* C15: a drag end sets isDragging to false and changes nothing else: the
\* cumulative angle, the velocity, the last pointer angle and the transport
\* are what they were, so the velocity of the last move is the momentum
\* that the following frames start from.
C15_EndDragKeepsMomentum ==
    [][EndDragStep =>
         /\ currentAngle' = currentAngle
         /\ velocity' = velocity
         /\ lastMouseAngle' = lastMouseAngle
         /\ paused' = paused
         /\ playbackRate' = playbackRate
         /\ volume' = volume
         /\ UNCHANGED <<lastTime, setupVars, framePlay, framePause, unlockPending,
                        canvasHeight, pseudoWaveform, drawVars, photoCount,
                        photoVars, rafPending, histVars>>]_vars

\* released while spinning and playing, no frame since: the velocity is
\* still that of the last move
C15_ReleasedWithMomentum ==
    /\ ~isDragging
    /\ moves >= 2
    /\ velocity = DRAG_GAIN * 1000
    /\ currentAngle = dragStartAngle + deltaSum
    /\ lastMouseAngle # dragStartAngle
    /\ ~paused

(***************************************************************************)
(* C16.  A pointer move outside a drag.                                    *)
(***************************************************************************)
\* a step that starts and ends outside a drag; in SpecDrag, which has no
\* frames, these are the pointer moves and the drag ends outside a drag
IdleStep == ~isDragging /\ ~isDragging'

\* C16: a pointer move that arrives while isDragging is false changes
\* neither the cumulative angle nor the velocity nor the last pointer
\* angle, and nothing of the transport: it is not counted as a move.
C16_IdleMoveIsNoOp ==
    [][IdleStep =>
         /\ currentAngle' = currentAngle
         /\ velocity' = velocity
         /\ lastMouseAngle' = lastMouseAngle
         /\ moves' = moves
         /\ UNCHANGED <<audioVars, deltaSum, dragStartAngle>>]_vars

\* a move was ignored after the end of a drag that turned the crank: angle,
\* velocity and last pointer angle are those of the drag
C16_MoveIgnoredAfterRelease ==
    /\ ~isDragging
    /\ moveIgnored
    /\ moves = 1
    /\ velocity = DRAG_GAIN * 1000
    /\ currentAngle = dragStartAngle + 1000
    /\ lastMouseAngle = 1000

(***************************************************************************)
(* C17.  The bars of an idle frame.                                        *)
(***************************************************************************)
\* a live analysis source: part_000:223 analyser && !isLocalFile
LiveSource == analyser /\ ~isLocalFile
\* the frame is idle: its speed is not above the threshold of its source
IdleFrame ==
    /\ FrameStep
    /\ IF LiveSource THEN FrameSpeed <= LIVE_THRESHOLD ELSE FrameSpeed <= PLAY_THRESHOLD
\* the baseline height of bar i, raised to the minimum and capped at the
\* surface height
BaselineBar(i) ==
    LET h1 == Max(MIN_BAR, pseudoWaveform[i])
    IN  Min(h1, 2 * canvasHeight)

\* C17: every idle frame draws the baseline waveform that was generated at
\* startup, clamped to the surface height: NumBars bars, the same as on
\* every other idle frame with that surface height, never the live
\* magnitudes, never jittered, never none.
C17_IdleDrawsBaseline ==
    [][IdleFrame =>
         /\ Len(pseudoWaveform) = NumBars
         /\ bars' = [i \in 1..NumBars |-> BaselineBar(i)]]_vars

(***************************************************************************)
(* C18.  Frames while the crank is held.                                   *)
(***************************************************************************)
\* a frame that runs while isDragging is true
HeldFrame == FrameStep /\ isDragging

\* C18: a frame that runs during a drag applies neither friction nor
\* integration: the cumulative angle is unchanged and the velocity keeps
\* its value, or becomes 0 when its magnitude is below 0.001; a transport
\* that is playing at a speed above 0.02 is still playing after the frame,
\* which called neither pause nor play.
C18_HeldFrameKeepsState ==
    [][HeldFrame =>
         /\ currentAngle' = currentAngle
         /\ velocity' = (IF Abs(velocity) < EPSILON THEN 0 ELSE velocity)
         /\ (~paused /\ Abs(velocity) > PLAY_THRESHOLD) =>
               (~paused' /\ ~framePause' /\ ~framePlay')]_vars

\* the crank is held after one move, a frame ran at the speed of that move
\* and found the transport playing: the angle is the one the move left
C18_HeldAndPlaying ==
    /\ isDragging
    /\ moves = 1
    /\ lastTime >= 2
    /\ velocity = DRAG_GAIN * 1000
    /\ currentAngle = dragStartAngle + deltaSum
    /\ playbackRate = RATE_MAX
    /\ ~paused
    /\ ~framePlay
====
